---- MODULE Spec2Model ----
(***************************************************************************)
(* Model of the choice codec of albert-app.py: format_choices renders a    *)
(* list of choice records as display text, parse_formatted_choices_to_list *)
(* reads display text back into a list of choice records.                  *)
(*                                                                         *)
(* A Python string is the sequence of its code points.  A Python value is  *)
(* a record whose type field is the Python type name and whose other       *)
(* fields hold the payload of that type: num the number of an int or a     *)
(* bool, chars the code points of a str, items the elements of a list,     *)
(* fields the values of the keys "text" and "is_correct" of a dict, the    *)
(* value Absent standing for a key the dict does not have.  A list is      *)
(* kept run-length encoded: it is `pad` leading None elements followed by  *)
(* the elements of items, so that a list of a million elements is still a  *)
(* small state.                                                            *)
(***************************************************************************)
EXTENDS Integers, Sequences, FiniteSets, TLC

-----------------------------------------------------------------------------
(* Code points of the characters the two functions look at.                *)
CHECK == 10003
SP == 32
NL == 10
DOT == 46
UpperA == 65
UpperZ == 90
ChrLimit == 1114112

(* The characters str.strip() removes and the regex class \s matches.      *)
Whitespace ==
  {9, 10, 11, 12, 13, 28, 29, 30, 31, 32, 133, 160, 5760, 8232, 8233, 8239,
   8287, 12288} \cup (8192..8202)

isspace(c) == c \in Whitespace

-----------------------------------------------------------------------------
(* Python values.                                                          *)
NoFields == [absent |-> TRUE]
Blank(t) ==
  [type |-> t, pad |-> 0, rep |-> 0, num |-> 0, chars |-> <<>>, items |-> <<>>,
   fields |-> NoFields]

PyStr(s) == [Blank("str") EXCEPT !.chars = s]
PyNone == Blank("NoneType")
PyBool(b) == [Blank("bool") EXCEPT !.num = IF b THEN 1 ELSE 0]
PyInt(n) == [Blank("int") EXCEPT !.num = n]
PyList(elems) == [Blank("list") EXCEPT !.items = elems]
PyPaddedList(n, elems) == [Blank("list") EXCEPT !.pad = n, !.items = elems]
Absent == Blank("absent")
PyDict(text, is_correct) ==
  [Blank("dict") EXCEPT !.fields = [text |-> text, is_correct |-> is_correct]]
(* A long text or list is kept run-length encoded: a str starts with `rep` *)
(* copies of the block "x" and its separator, a list (after its `pad`      *)
(* leading None elements) with `rep` copies of the incorrect choice "x".   *)
RunChoice == PyDict(PyStr(<<120>>), PyBool(FALSE))
PyRunStr(n, s) == [Blank("str") EXCEPT !.rep = n, !.chars = s]
PyRunList(n, elems) == [Blank("list") EXCEPT !.rep = n, !.items = elems]
(* An exception that leaves the function, in the place of its result.      *)
PyRaise(exc) == Blank(exc)

isinstance(v, t) == v.type = t

(* The call ended with an exception.                                      *)
raised(v) == v.type \in {"ValueError", "TypeError", "AttributeError"}

(* len(list) and list[idx] (idx zero-based) of a run-length encoded list.  *)
len(v) == v.pad + v.rep + Len(v.items)
item(v, idx) ==
  IF idx < v.pad THEN PyNone
  ELSE IF idx < v.pad + v.rep THEN RunChoice
  ELSE v.items[idx - v.pad - v.rep + 1]

(* dict.get(key, default)                                                  *)
get(d, key, default) ==
  IF isinstance(d.fields[key], "absent") THEN default ELSE d.fields[key]

(* Truth value of a Python value, as the conditional expression tests it.  *)
truth(v) ==
  CASE v.type = "bool" -> v.num # 0
    [] v.type = "int" -> v.num # 0
    [] v.type = "NoneType" -> FALSE
    [] v.type = "str" -> v.rep + Len(v.chars) > 0
    [] v.type = "list" -> len(v) > 0
    [] OTHER -> TRUE

(* Decimal digits of a natural number.                                     *)
RECURSIVE digits(_)
digits(n) == IF n < 10 THEN <<48 + n>> ELSE digits(n \div 10) \o <<48 + (n % 10)>>

(* The text an f-string replacement field {v} produces.                    *)
fstr(v) ==
  CASE v.type = "str" -> v.chars
    [] v.type = "NoneType" -> <<78, 111, 110, 101>>
    [] v.type = "bool" -> IF v.num # 0 THEN <<84, 114, 117, 101>> ELSE <<70, 97, 108, 115, 101>>
    [] v.type = "int" -> IF v.num < 0 THEN <<45>> \o digits(0 - v.num) ELSE digits(v.num)

-----------------------------------------------------------------------------
(* String methods.                                                         *)
Min(S) == CHOOSE x \in S : \A y \in S : x <= y
Max(S) == CHOOSE x \in S : \A y \in S : x >= y

(* str.strip(): without leading and trailing whitespace.                   *)
strip(s) ==
  LET keep == {i \in 1..Len(s) : ~isspace(s[i])}
  IN IF keep = {} THEN <<>> ELSE SubSeq(s, Min(keep), Max(keep))

(* str.startswith(prefix)                                                  *)
startswith(s, prefix) ==
  Len(s) >= Len(prefix) /\ SubSeq(s, 1, Len(prefix)) = prefix

(* str.find(sep): one-based position of the first occurrence, 0 if none.   *)
find(s, sep) ==
  LET hits == {i \in 1..(Len(s) - Len(sep) + 1) : SubSeq(s, i, i + Len(sep) - 1) = sep}
  IN IF hits = {} THEN 0 ELSE Min(hits)

(* str.split(sep): the pieces between the occurrences of sep, scanning     *)
(* left to right.                                                          *)
RECURSIVE split(_, _)
split(s, sep) ==
  LET i == find(s, sep)
  IN IF i = 0 THEN <<s>>
     ELSE <<SubSeq(s, 1, i - 1)>> \o split(SubSeq(s, i + Len(sep), Len(s)), sep)

(* chr(n): the one-character string, ValueError outside the code space.    *)
chr_ok(n) == n >= 0 /\ n < ChrLimit
chr(n) == <<n>>

(* re.match(r"^[A-Z]\.\s", s): match.end() when it matches, -1 for None.   *)
re_match(s) ==
  IF Len(s) >= 3 /\ s[1] \in UpperA..UpperZ /\ s[2] = DOT /\ isspace(s[3])
  THEN 3 ELSE -1

-----------------------------------------------------------------------------
(* format_choices                                                          *)
CorrectPrefix == <<CHECK, SP>>
Separator == <<NL, NL>>

(* The loop of format_choices from position idx on; formatted_so_far is    *)
(* the local variable formatted, the text accumulated so far.  The outcome *)
(* is the text accumulated when the loop ends, and whether it ended by     *)
(* chr() raising.                                                          *)
letter_prefix(idx) == chr(UpperA + idx) \o <<DOT, SP>>

(* Mutant: the letter counts the incorrect choices before the position.   *)
RECURSIVE format_loop_counting(_, _, _)
format_loop_counting(choices, idx, formatted_so_far) ==
  IF idx >= len(choices) THEN [formatted |-> formatted_so_far, raised |-> FALSE]
  ELSE LET choice == item(choices, idx)
           wrong_before ==
             Cardinality({j \in choices.pad..(idx - 1) :
               /\ isinstance(item(choices, j), "dict")
               /\ ~truth(get(item(choices, j), "is_correct", PyBool(FALSE)))})
       IN IF ~isinstance(choice, "dict")
          THEN format_loop_counting(choices, idx + 1, formatted_so_far)
          ELSE IF truth(get(choice, "is_correct", PyBool(FALSE)))
               THEN format_loop_counting(choices, idx + 1,
                      formatted_so_far \o CorrectPrefix \o fstr(get(choice, "text", PyStr(<<>>))) \o Separator)
               ELSE format_loop_counting(choices, idx + 1,
                      formatted_so_far \o letter_prefix(wrong_before)
                        \o fstr(get(choice, "text", PyStr(<<>>))) \o Separator)

RECURSIVE format_loop(_, _, _)
format_loop(choices, idx, formatted_so_far) ==
  IF idx >= len(choices) THEN [formatted |-> formatted_so_far, raised |-> FALSE]
  ELSE LET choice == item(choices, idx)
       IN IF ~isinstance(choice, "dict")
          THEN format_loop(choices, idx + 1, formatted_so_far)
          ELSE IF truth(get(choice, "is_correct", PyBool(FALSE)))
               THEN format_loop(choices, idx + 1,
                      formatted_so_far \o CorrectPrefix \o fstr(get(choice, "text", PyStr(<<>>))) \o Separator)
               ELSE IF ~chr_ok(UpperA + idx)
                    THEN [formatted |-> formatted_so_far, raised |-> TRUE]
                    ELSE format_loop(choices, idx + 1,
                           formatted_so_far \o letter_prefix(idx)
                             \o fstr(get(choice, "text", PyStr(<<>>))) \o Separator)

(* The body of format_choices up to the return statement.  The leading     *)
(* None elements of the run-length encoded list are not dicts: the loop    *)
(* passes over each of them with `continue`.  A run of incorrect choices   *)
(* that reaches a position whose letter is outside the code space makes    *)
(* chr() raise there; the text accumulated up to that position is far too  *)
(* long to keep and is left out of the result.                             *)
format_body(choices) ==
  IF ~isinstance(choices, "list") THEN [formatted |-> <<>>, raised |-> FALSE]
  ELSE IF choices.rep > 0 /\ ~chr_ok(UpperA + choices.pad + choices.rep - 1)
       THEN [formatted |-> <<>>, raised |-> TRUE]
       ELSE format_loop(choices, choices.pad, <<>>)

(* Mutant: no isinstance check, the loop iterates whatever it is given.    *)
format_choices_unchecked(choices) ==
  IF choices.type \in {"NoneType", "int", "bool"} THEN PyRaise("TypeError")
  ELSE IF ~isinstance(choices, "list") THEN PyStr(<<>>)
  ELSE LET body == format_body(choices)
       IN IF body.raised THEN PyRaise("ValueError")
          ELSE PyStr(strip(body.formatted))

format_choices(choices) ==
  LET body == format_body(choices)
  IN IF body.raised THEN PyRaise("ValueError")
     ELSE PyStr(strip(body.formatted))

-----------------------------------------------------------------------------
(* parse_formatted_choices_to_list                                         *)
Choice(text_content, is_correct) ==
  PyDict(PyStr(text_content), PyBool(is_correct))

(* Mutant: the check mark alone, without the space, marks a correct choice. *)
parse_block_mark_only(block_text) ==
  IF startswith(block_text, <<CHECK>>)
  THEN Choice(strip(SubSeq(block_text, Len(CorrectPrefix) + 1, Len(block_text))), TRUE)
  ELSE IF re_match(block_text) # -1
       THEN Choice(strip(SubSeq(block_text, re_match(block_text) + 1, Len(block_text))), FALSE)
       ELSE Choice(block_text, FALSE)

(* One pass of the loop body for a stripped, non-empty block.              *)
parse_block(block_text) ==
  IF startswith(block_text, CorrectPrefix)
  THEN Choice(strip(SubSeq(block_text, Len(CorrectPrefix) + 1, Len(block_text))), TRUE)
  ELSE IF re_match(block_text) # -1
       THEN Choice(strip(SubSeq(block_text, re_match(block_text) + 1, Len(block_text))), FALSE)
       ELSE Choice(block_text, FALSE)

(* Mutant: a block that is empty after stripping is not skipped.           *)
RECURSIVE parse_loop_keep_empty(_, _, _)
parse_loop_keep_empty(raw_choice_blocks, i, choices) ==
  IF i > Len(raw_choice_blocks) THEN choices
  ELSE parse_loop_keep_empty(raw_choice_blocks, i + 1,
         Append(choices, parse_block(strip(raw_choice_blocks[i]))))

(* Mutant: the blocks are classified as split, without being stripped.     *)
RECURSIVE parse_loop_unstripped(_, _, _)
parse_loop_unstripped(raw_choice_blocks, i, choices) ==
  IF i > Len(raw_choice_blocks) THEN choices
  ELSE LET block_text == raw_choice_blocks[i]
       IN IF block_text = <<>>
          THEN parse_loop_unstripped(raw_choice_blocks, i + 1, choices)
          ELSE parse_loop_unstripped(raw_choice_blocks, i + 1,
                 Append(choices, parse_block(block_text)))

RECURSIVE parse_loop(_, _, _)
parse_loop(raw_choice_blocks, i, choices) ==
  IF i > Len(raw_choice_blocks) THEN choices
  ELSE LET block_text == strip(raw_choice_blocks[i])
       IN IF block_text = <<>>
          THEN parse_loop(raw_choice_blocks, i + 1, choices)
          ELSE parse_loop(raw_choice_blocks, i + 1, Append(choices, parse_block(block_text)))

(* Mutant: no isinstance check, strip() is called on whatever is given.    *)
parse_unchecked(formatted_text) ==
  IF ~isinstance(formatted_text, "str") THEN PyRaise("AttributeError")
  ELSE IF formatted_text.rep = 0 /\ strip(formatted_text.chars) = <<>> THEN PyList(<<>>)
  ELSE PyRunList(formatted_text.rep,
                 parse_loop(split(strip(formatted_text.chars), Separator), 1, <<>>))

(* Each block of a leading run is "x": it holds no line-break, so the      *)
(* split ends it at its own separator and the loop appends the incorrect   *)
(* choice "x" for it; the rest of the text is split and looped over as     *)
(* usual.                                                                  *)
parse_formatted_choices_to_list(formatted_text) ==
  IF \/ ~isinstance(formatted_text, "str")
     \/ (formatted_text.rep = 0 /\ strip(formatted_text.chars) = <<>>)
  THEN PyList(<<>>)
  ELSE PyRunList(formatted_text.rep,
                 parse_loop(split(strip(formatted_text.chars), Separator), 1, <<>>))

-----------------------------------------------------------------------------
(* Bounds of the inputs.                                                   *)
MaxBlocks == 3
MaxChoices == 3
MaxCalls == 3

(* Number of letters the decoder's prefix pattern accepts.                 *)
LetterCount == UpperZ - UpperA + 1
(* First list position whose letter chr(65+idx) is outside the code space. *)
HugePad == ChrLimit - UpperA

(* Raw blocks the input strings are put together from.                     *)
Blocks ==
  { <<>>,                                  \* empty
    <<SP>>,                                \* " "
    <<120>>,                               \* "x"
    <<NL, 120>>,                           \* "\nx"
    <<CHECK, SP, 120>>,                    \* "✓ x"
    <<CHECK, SP>>,                         \* "✓ "
    <<CHECK, SP, 66, DOT, SP, 120>>,       \* "✓ B. x"
    <<66, DOT, SP, 120, SP>>,              \* "B. x "
    <<66, DOT, NL, 120>>,                  \* "B.\nx"
    <<66, DOT, SP>>,                       \* "B. "
    <<98, DOT, SP, 120>> }                 \* "b. x"

(* Elements the input lists are put together from: choice records, records *)
(* with a field missing or of another type, and an element that is no      *)
(* record.                                                                 *)
Elements ==
  { Choice(<<120>>, FALSE), Choice(<<121>>, TRUE), Choice(<<>>, TRUE),
    Choice(<<SP, 122, SP>>, FALSE),
    PyDict(Absent, PyBool(TRUE)),
    PyDict(PyStr(<<119>>), Absent),
    PyDict(PyInt(7), PyInt(1)),
    PyStr(<<103>>) }

SeqsUpTo(S, n) == UNION {[1..k -> S] : k \in 0..n}

RECURSIVE join(_, _)
join(pieces, sep) ==
  IF pieces = <<>> THEN <<>>
  ELSE IF Len(pieces) = 1 THEN pieces[1]
  ELSE pieces[1] \o sep \o join(Tail(pieces), sep)

RECURSIVE repeat(_, _)
repeat(s, n) == IF n = 0 THEN <<>> ELSE s \o repeat(s, n - 1)

(* Display texts: up to MaxBlocks blocks, and texts of more blocks than    *)
(* there are letters.                                                      *)
InputTexts ==
  {PyStr(join(bs, Separator)) : bs \in SeqsUpTo(Blocks, MaxBlocks)}
    \cup {PyStr(repeat(<<120, NL, NL>>, LetterCount) \o b) : b \in Blocks}

(* Choice lists: up to MaxChoices elements, and short lists behind a run   *)
(* of None elements that takes them past the letters and past the code     *)
(* space.                                                                  *)
InputLists ==
  {PyList(es) : es \in SeqsUpTo(Elements, MaxChoices)}
    \cup {PyPaddedList(n, es) : n \in {LetterCount, HugePad}, es \in SeqsUpTo(Elements, 1)}

(* Values that are neither a string nor a list.                            *)
InputOthers == {PyNone, PyInt(5), PyBool(TRUE), Choice(<<120>>, TRUE)}

Inputs == InputTexts \cup InputLists \cup InputOthers

-----------------------------------------------------------------------------
(* The session of calls: arg is the value the caller starts from, calls    *)
(* the functions it has applied in turn, each to the value the previous    *)
(* one returned, and results what each call returned.  The first call is   *)
(* made on any value (json_to_df formats whatever the file holds, Save     *)
(* parses whatever the edited cell holds); after it the caller passes a    *)
(* returned list to format_choices and a returned text to                  *)
(* parse_formatted_choices_to_list, as Save does.  formatted is the    *)
(* local variable of the last format_choices call as its loop left it,     *)
(* before the return statement strips it.                                  *)
VARIABLES arg, calls, results, formatted

(* The session of the editor: the keys of st.session_state the handlers    *)
(* keep (original_data, file_name, df, updated_json,                       *)
(* powerpath_export_data), and the level titles selected in the sidebar's  *)
(* multiselect, which keeps its value from one script run to the next.     *)
VARIABLES original_data, file_name, df, updated_json, powerpath_export_data,
          selected_levels

codec_vars == <<arg, calls, results, formatted>>
session_vars == <<original_data, file_name, df, updated_json, powerpath_export_data,
                  selected_levels>>
vars == <<codec_vars, session_vars>>

(* A key of st.session_state that is not set, and one that holds v.        *)
Missing == [present |-> FALSE, value |-> <<>>]
Stored(v) == [present |-> TRUE, value |-> v]

(* No file has been uploaded.                                              *)
NoSession ==
  /\ original_data = Missing
  /\ file_name = ""
  /\ df = Missing
  /\ updated_json = Missing
  /\ powerpath_export_data = Missing
  /\ selected_levels = {}

current == IF calls = <<>> THEN arg ELSE results[Len(results)]

Init ==
  /\ arg \in Inputs
  /\ calls = <<>>
  /\ results = <<>>
  /\ formatted = <<>>
  /\ NoSession

CanCall == Len(calls) < MaxCalls /\ ~raised(current)

Format ==
  /\ CanCall
  /\ calls = <<>> \/ isinstance(current, "list")
  /\ calls' = Append(calls, "format_choices")
  /\ results' = Append(results, format_choices(current))
  /\ formatted' = format_body(current).formatted
  /\ UNCHANGED <<arg, session_vars>>

Parse ==
  /\ CanCall
  /\ calls = <<>> \/ isinstance(current, "str")
  /\ calls' = Append(calls, "parse_formatted_choices_to_list")
  /\ results' = Append(results, parse_formatted_choices_to_list(current))
  /\ UNCHANGED <<arg, formatted, session_vars>>

Next == Format \/ Parse

Spec == Init /\ [][Next]_vars

TypeOK ==
  /\ Len(calls) = Len(results)
  /\ Len(calls) <= MaxCalls

-----------------------------------------------------------------------------
(* The documents of the editor: uploaded items, DataFrame rows, the output *)
(* JSON and the PowerPath export.                                          *)

(* json.dumps(v) and json.loads(s).  The JSON text is kept as the value it *)
(* denotes, tagged as a text of its own type: every value serialised here  *)
(* came out of json.loads or of the decoder, and for those json.loads      *)
(* gives back the value json.dumps was given.  Any other value handed to   *)
(* json.loads is no JSON text.                                             *)
json_dumps(v) == [Blank("json") EXCEPT !.items = <<v>>]
json_loads(s) == IF isinstance(s, "json") THEN s.items[1] ELSE PyRaise("JSONDecodeError")

(* The float NaN pandas puts where a row has no value for a column, and    *)
(* pd.isna / pd.notna.                                                     *)
PyNaN == Blank("nan")
isna(v) == v.type \in {"NoneType", "nan"}
notna(v) == ~isna(v)

(* A dict of an item or of a row: the keys the handlers read or write,     *)
(* Absent for a key the dict does not have.                                *)
Keys == {"choices", "choices_json", "choices_formatted", "explanation", "level_title",
         "item_index", "select"}
Row(choices, choices_json, choices_formatted, explanation, level_title, item_index, select) ==
  [choices |-> choices, choices_json |-> choices_json,
   choices_formatted |-> choices_formatted, explanation |-> explanation,
   level_title |-> level_title, item_index |-> item_index, select |-> select]
Item(choices, explanation, level_title) ==
  Row(choices, Absent, Absent, explanation, level_title, Absent, Absent)
has(row, key) == row[key] # Absent

(* pd.DataFrame(rows): a column for every key some row has, NaN where a    *)
(* row lacks the key.                                                      *)
Columns(rows) == {k \in Keys : \E i \in DOMAIN rows : has(rows[i], k)}
DataFrame(rows) ==
  [i \in DOMAIN rows |->
     [k \in Keys |-> IF ~has(rows[i], k) /\ k \in Columns(rows) THEN PyNaN ELSE rows[i][k]]]

(* The loop body of json_to_df for item number i (zero-based).             *)
json_to_df_row(i, json_item) ==
  [json_item EXCEPT
     !.choices_json = IF has(json_item, "choices") THEN json_dumps(json_item.choices)
                      ELSE json_dumps(PyList(<<>>)),
     !.choices_formatted = IF has(json_item, "choices") THEN format_choices(json_item.choices)
                           ELSE PyStr(<<>>),
     !.choices = Absent,
     !.item_index = PyInt(i)]

(* json_to_df: the frame, or the exception format_choices left it with.    *)
json_to_df(json_data) ==
  LET rows == [i \in DOMAIN json_data |-> json_to_df_row(i - 1, json_data[i])]
  IN IF \E i \in DOMAIN rows : raised(rows[i].choices_formatted)
     THEN [frame |-> <<>>, raised |-> TRUE]
     ELSE [frame |-> DataFrame(rows), raised |-> FALSE]

(* The loop body of df_to_json.                                            *)
df_to_json_row(row_dict) ==
  [row_dict EXCEPT
     !.item_index = Absent,
     !.select = Absent,
     !.choices = IF has(row_dict, "choices_json") /\ notna(row_dict.choices_json)
                 THEN IF json_loads(row_dict.choices_json) = PyRaise("JSONDecodeError")
                      THEN PyList(<<>>)
                      ELSE json_loads(row_dict.choices_json)
                 ELSE IF has(row_dict, "choices_json") THEN PyList(<<>>)
                 ELSE @,
     !.choices_json = Absent,
     !.choices_formatted = Absent]

df_to_json(frame) == [i \in DOMAIN frame |-> df_to_json_row(frame[i])]

(* df_to_powerpath_json.                                                   *)
Response(label, isCorrect, explanation) ==
  [label |-> label, isCorrect |-> isCorrect, explanation |-> explanation]

(* Lines 254-256: the explanation of the row, None when missing or blank.  *)
question_explanation(row) ==
  LET e == IF has(row, "explanation") THEN row.explanation ELSE PyNone
  IN IF isna(e) \/ strip(fstr(e)) = <<>> THEN PyNone ELSE e

(* The response with the explanation on every entry, whatever is_correct.  *)
response_explained(choice, explanation) ==
  Response(get(choice, "text", PyStr(<<>>)),
           get(choice, "is_correct", PyBool(FALSE)),
           IF truth(explanation) THEN explanation ELSE PyNone)

(* Lines 263-271: the response of one choice.                              *)
response(choice, explanation) ==
  Response(get(choice, "text", PyStr(<<>>)),
           get(choice, "is_correct", PyBool(FALSE)),
           IF truth(get(choice, "is_correct", PyBool(FALSE))) /\ truth(explanation)
           THEN explanation ELSE PyNone)

(* Lines 258-273: the responses of a row.  A leading run of the stored     *)
(* list gives a run of as many responses of the incorrect choice "x".      *)
(* Iterating a value that is no list, or calling get() on an element that  *)
(* is no dict, raises an exception the function does not catch.            *)
responses_list(row) ==
  IF ~(has(row, "choices_json") /\ notna(row.choices_json))
  THEN [run |-> 0, items |-> <<>>, error |-> ""]
  ELSE LET original_choices == json_loads(row.choices_json)
       IN IF original_choices.type \in {"NoneType", "int", "bool", "nan"}
          THEN [run |-> 0, items |-> <<>>, error |-> "TypeError"]
          ELSE IF isinstance(original_choices, "str")
          THEN [run |-> 0, items |-> <<>>,
                error |-> IF truth(original_choices) THEN "AttributeError" ELSE ""]
          ELSE IF isinstance(original_choices, "dict")
          THEN [run |-> 0, items |-> <<>>, error |-> "AttributeError"]
          ELSE IF \/ original_choices.pad > 0
                  \/ \E i \in DOMAIN original_choices.items :
                       ~isinstance(original_choices.items[i], "dict")
          THEN [run |-> 0, items |-> <<>>, error |-> "AttributeError"]
          ELSE [run |-> original_choices.rep,
                items |-> [i \in DOMAIN original_choices.items |->
                             response(original_choices.items[i], question_explanation(row))],
                error |-> ""]

(* Lines 275-291: no row here has a material or a question_difficulty.     *)
pp_question(row) ==
  [material |-> PyStr(<<>>), metadata |-> PyNone, explanation |-> PyNone,
   referenceText |-> PyNone, difficulty |-> PyInt(1),
   responses |-> [run |-> responses_list(row).run, items |-> responses_list(row).items]]

df_to_powerpath_json(selected_df_rows) ==
  LET bad == {i \in DOMAIN selected_df_rows : responses_list(selected_df_rows[i]).error # ""}
  IN IF bad # {}
     THEN [questions |-> <<>>, error |-> responses_list(selected_df_rows[Min(bad)]).error]
     ELSE [questions |-> [i \in DOMAIN selected_df_rows |-> pp_question(selected_df_rows[i])],
           error |-> ""]

-----------------------------------------------------------------------------
(* The editor session: upload, edit, export, save, reset.                  *)

(* Rows the user deletes, cells of the choices column the user edits and   *)
(* rows the user adds between two script runs.                             *)
MaxDeleted == 1
MaxEdited == 1
MaxAdded == 1
(* Rows the user ticks for one export.                                     *)
MaxSelected == 1

Level1 == <<76, 49>>

(* Uploaded items: two choices, an explanation and a level title; a        *)
(* choice without text and a choice with padded text, with a blank         *)
(* explanation and no level title; no key but the question's; a choice     *)
(* list whose incorrect choice stands at the first position chr() has no   *)
(* letter for.  The explanation is a text or missing: the editor shows it  *)
(* in a text column (lines 476-477).                                       *)
ItemTwoChoices ==
  Item(PyList(<<Choice(<<120>>, FALSE), Choice(<<121>>, TRUE)>>), PyStr(<<101>>), PyStr(Level1))
ItemBlankExplanation ==
  Item(PyList(<<PyDict(Absent, PyBool(TRUE)), Choice(<<SP, 122, SP>>, FALSE)>>),
       PyStr(<<SP>>), Absent)
ItemBare == Item(Absent, Absent, Absent)
ItemHuge == Item(PyPaddedList(HugePad, <<Choice(<<120>>, FALSE)>>), Absent, Absent)

(* Files the user uploads: name and parsed content.                        *)
Upload(name, data) == [name |-> name, data |-> data]
Uploads ==
  { Upload("a.json", <<ItemTwoChoices, ItemBlankExplanation>>),
    Upload("b.json", <<ItemBare>>),
    Upload("c.json", <<ItemHuge>>) }

(* Texts the user types into a cell of the choices column: a correct       *)
(* choice, and a text of more blocks than chr() has letters for.           *)
TextEdits ==
  { PyStr(<<CHECK, SP, 120>>), PyRunStr(HugePad + 1, <<>>) }

(* Lines 395-401: the level titles the sidebar offers.                     *)
level_titles_options(frame) ==
  {frame[i].level_title :
     i \in {j \in DOMAIN frame : has(frame[j], "level_title") /\ notna(frame[j].level_title)}}

(* Lines 432-435: positions of the rows the level filter keeps.            *)
filtered_df(frame, levels) ==
  {i \in DOMAIN frame : levels = {} \/ frame[i].level_title \in levels}

(* A row of the frame as the editor returns it: the select column of lines *)
(* 457-458 set by the user, the choices cell as typed (Absent: not         *)
(* edited).                                                                *)
EditedRow(row, new_text, mark) ==
  [row EXCEPT !.select = PyBool(mark),
              !.choices_formatted = IF new_text = Absent THEN @ ELSE new_text]

(* A row added in the editor: no value in any column but select.           *)
NewRow(frame, mark) ==
  [k \in Keys |-> IF k = "select" THEN PyBool(mark)
                  ELSE IF k \in Columns(frame) THEN PyNone ELSE Absent]

RECURSIVE edited_rows(_, _, _, _, _)
edited_rows(frame, kept, text_of, mark_of, i) ==
  IF i > Len(frame) THEN <<>>
  ELSE (IF i \in kept THEN <<EditedRow(frame[i], text_of[i], mark_of[i])>> ELSE <<>>)
         \o edited_rows(frame, kept, text_of, mark_of, i + 1)

TextChoices(kept, texts) ==
  {t \in [kept -> texts \cup {Absent}] : Cardinality({i \in kept : t[i] # Absent}) <= MaxEdited}

(* Lines 432-495: the frame st.data_editor returns for the document: the   *)
(* rows the filter keeps, less the rows the user deleted, with the user's  *)
(* edits, followed by the rows the user added.                             *)
data_editor(frame, levels, deleted, text_of, mark_of, added) ==
  edited_rows(frame, filtered_df(frame, levels) \ deleted, text_of, mark_of, 1) \o added

(* What the user can do to the rows the filter keeps.                      *)
Deletions(frame, levels) ==
  {d \in SUBSET filtered_df(frame, levels) : Cardinality(d) <= MaxDeleted}
Additions(frame) == SeqsUpTo({NewRow(frame, FALSE)}, MaxAdded)

(* The frames the editor can hand to Save: rows deleted, choices cells     *)
(* edited, rows added, nothing ticked.                                     *)
EditedFrames(frame, levels) ==
  UNION { { data_editor(frame, levels, deleted, text_of, [i \in DOMAIN text_of |-> FALSE],
                        added) :
              text_of \in TextChoices(filtered_df(frame, levels) \ deleted, TextEdits),
              added \in Additions(frame) } :
          deleted \in Deletions(frame, levels) }

(* Lines 502-503: the ticked rows of the editor's frame.                   *)
IsSelected(row) == row.select = PyBool(TRUE)
selected_rows_df(edited_df) == SelectSeq(edited_df, IsSelected)

(* The frames the editor can hand to the export: rows ticked, nothing      *)
(* else touched.                                                           *)
TickedFrames(frame, levels) ==
  { edited_df \in
      { data_editor(frame, levels, {}, [i \in DOMAIN mark_of |-> Absent], mark_of, <<>>) :
          mark_of \in [filtered_df(frame, levels) -> BOOLEAN] } :
      Len(selected_rows_df(edited_df)) <= MaxSelected }

(* Lines 379-388: a file is loaded when none is, or when its name differs  *)
(* from the loaded one.  An exception of json_to_df ends the run before df *)
(* is assigned and before the two result keys are deleted.  The sidebar is *)
(* built anew for the file: nothing is selected.                           *)
Load ==
  \E uploaded_file \in Uploads :
    /\ ~original_data.present \/ file_name # uploaded_file.name
    /\ original_data' = Stored(uploaded_file.data)
    /\ file_name' = uploaded_file.name
    /\ LET fresh == json_to_df(uploaded_file.data)
       IN IF fresh.raised
          THEN UNCHANGED <<df, updated_json, powerpath_export_data>>
          ELSE /\ df' = Stored(fresh.frame)
               /\ updated_json' = Missing
               /\ powerpath_export_data' = Missing
    /\ selected_levels' = {}
    /\ UNCHANGED codec_vars

(* Lines 399-401: the user changes the selection of level titles.          *)
Filter ==
  /\ df.present
  /\ \E levels \in SUBSET level_titles_options(df.value) :
       /\ levels # selected_levels
       /\ selected_levels' = levels
  /\ UNCHANGED <<original_data, file_name, df, updated_json, powerpath_export_data,
                 codec_vars>>

(* Lines 531-534: what the export click leaves in powerpath_export_data.   *)
(* An exception, or an empty result, leaves the key as it was.             *)
export(edited_df) ==
  LET powerpath_data == df_to_powerpath_json(selected_rows_df(edited_df))
  IN IF powerpath_data.error = "" /\ powerpath_data.questions # <<>>
     THEN Stored(powerpath_data.questions)
     ELSE powerpath_export_data

ExportWith(edited_df) ==
  /\ selected_rows_df(edited_df) # <<>>
  /\ powerpath_export_data' = export(edited_df)
  /\ UNCHANGED <<original_data, file_name, df, updated_json, selected_levels, codec_vars>>

Export ==
  /\ df.present
  /\ \E edited_df \in TickedFrames(df.value, selected_levels) : ExportWith(edited_df)

(* Lines 575-594: the value Save stores for another column.                *)
other_column(val_from_edited_row) ==
  IF isna(val_from_edited_row) THEN PyNone ELSE val_from_edited_row

(* Line 565: the choices are handled when both columns exist.              *)
handles_choices(frame, edited_row_series) ==
  has(edited_row_series, "choices_formatted") /\ "choices_json" \in Columns(frame)

(* Lines 564-594: a row of the document after Save has written the edited  *)
(* row into it, given the JSON text and the display text computed at lines *)
(* 568-572.                                                                *)
saved_row(columns, row, edited_row_series, new_choices_json_str, new_choices_formatted) ==
  [c \in Keys |->
     IF c = "choices_json" /\ new_choices_json_str # Absent THEN new_choices_json_str
     ELSE IF c = "choices_formatted" /\ new_choices_json_str # Absent
     THEN new_choices_formatted
     ELSE IF /\ c \in columns
             /\ has(edited_row_series, c)
             /\ c \notin {"select", "item_index", "choices_formatted", "choices_json"}
     THEN other_column(edited_row_series[c])
     ELSE row[c]]

(* Every record of the document, whatever its item_index.                  *)
main_df_mask_all(frame, original_item_idx) == DOMAIN frame

(* Line 561: the records of the document with the item_index of the row.   *)
main_df_mask(frame, original_item_idx) ==
  {i \in DOMAIN frame : frame[i].item_index = original_item_idx}

(* Lines 554-594: the loop of Save over the rows of the editor's frame,    *)
(* from row k on.  format_choices is called after choices_json has been    *)
(* assigned (lines 571-572): when it raises, the loop ends with that       *)
(* assignment made and nothing else of the row.                            *)
RECURSIVE save_loop(_, _, _)
save_loop(frame, edited_df, k) ==
  IF k > Len(edited_df) THEN [frame |-> frame, error |-> ""]
  ELSE
    LET edited_row_series == edited_df[k]
        original_item_idx == edited_row_series.item_index
        mask == main_df_mask(frame, original_item_idx)
        newly_parsed_choices_list ==
          parse_formatted_choices_to_list(edited_row_series.choices_formatted)
        new_choices_json_str ==
          IF handles_choices(frame, edited_row_series)
          THEN json_dumps(newly_parsed_choices_list) ELSE Absent
        new_choices_formatted ==
          IF handles_choices(frame, edited_row_series)
          THEN format_choices(newly_parsed_choices_list) ELSE Absent
    IN IF isna(original_item_idx) \/ mask = {}
       THEN save_loop(frame, edited_df, k + 1)
       ELSE IF raised(new_choices_formatted)
            THEN [frame |-> [i \in DOMAIN frame |->
                               IF i \in mask
                               THEN [frame[i] EXCEPT !.choices_json = new_choices_json_str]
                               ELSE frame[i]],
                  error |-> "ValueError"]
            ELSE save_loop([i \in DOMAIN frame |->
                              IF i \in mask
                              THEN saved_row(Columns(frame), frame[i], edited_row_series,
                                             new_choices_json_str, new_choices_formatted)
                              ELSE frame[i]],
                           edited_df, k + 1)

(* Lines 552-607: what Save leaves in df and updated_json for the frame    *)
(* the editor returned.  The output JSON is written after the loop, when   *)
(* no exception ended it.                                                  *)
save(edited_df) ==
  LET saved == save_loop(df.value, edited_df, 1)
  IN [df |-> Stored(saved.frame),
      updated_json |-> IF saved.error = "" THEN Stored(df_to_json(saved.frame))
                       ELSE updated_json]

SaveWith(edited_df) ==
  /\ df' = save(edited_df).df
  /\ updated_json' = save(edited_df).updated_json
  /\ UNCHANGED <<original_data, file_name, powerpath_export_data, selected_levels,
                 codec_vars>>

Save ==
  /\ df.present
  /\ \E edited_df \in EditedFrames(df.value, selected_levels) : SaveWith(edited_df)

(* Lines 616-620: what Reset leaves in df, updated_json and                *)
(* powerpath_export_data.  An exception of json_to_df leaves the three as  *)
(* they were.                                                              *)
reset ==
  LET fresh == json_to_df(original_data.value)
  IN IF fresh.raised
     THEN [df |-> df, updated_json |-> updated_json,
           powerpath_export_data |-> powerpath_export_data]
     ELSE [df |-> Stored(fresh.frame), updated_json |-> Missing,
           powerpath_export_data |-> Missing]

(* Lines 616-627: Reset.                                                   *)
Reset ==
  /\ df.present
  /\ df' = reset.df
  /\ updated_json' = reset.updated_json
  /\ powerpath_export_data' = reset.powerpath_export_data
  /\ UNCHANGED <<original_data, file_name, selected_levels, codec_vars>>

SessionInit ==
  /\ NoSession
  /\ arg = PyNone
  /\ calls = <<>>
  /\ results = <<>>
  /\ formatted = <<>>

SessionNext == Load \/ Filter \/ Export \/ Save \/ Reset

SessionSpec == SessionInit /\ [][SessionNext]_vars

(* The session without exports: the export reads the document and writes   *)
(* its own key only.                                                       *)
EditNext == Load \/ Filter \/ Save \/ Reset

EditSpec == SessionInit /\ [][EditNext]_vars

SessionTypeOK ==
  /\ original_data.present = (file_name # "")
  /\ df.present => original_data.present
  /\ updated_json.present => df.present
  /\ powerpath_export_data.present => df.present

-----------------------------------------------------------------------------
(* Vocabulary of the properties.                                           *)
F == "format_choices"
P == "parse_formatted_choices_to_list"

(* The value the k-th call was applied to.                                 *)
ArgOf(k) == IF k = 1 THEN arg ELSE results[k - 1]

Raised(v) == raised(v)

IsRecord(v) == isinstance(v, "dict")

(* A {text, is_correct} record: both fields, a string and a boolean.       *)
IsChoice(v) ==
  /\ IsRecord(v)
  /\ isinstance(v.fields.text, "str")
  /\ isinstance(v.fields.is_correct, "bool")

IsChoiceList(v) ==
  /\ isinstance(v, "list")
  /\ v.pad = 0
  /\ \A i \in DOMAIN v.items : IsChoice(v.items[i])

Contains(s, sub) == \E i \in 1..(Len(s) - Len(sub) + 1) : SubSeq(s, i, i + Len(sub) - 1) = sub

LetterPrefixed(s) ==
  Len(s) >= 3 /\ s[1] >= UpperA /\ s[1] <= UpperZ /\ s[2] = DOT /\ s[3] \in Whitespace

(* A text the round trip is promised for.                                  *)
Unambiguous(t) ==
  /\ ~Contains(t, <<NL, NL>>)
  /\ ~(Len(t) >= 2 /\ t[1] = CHECK /\ t[2] = SP)
  /\ ~LetterPrefixed(t)

(* The block the encoder is said to emit for the record at position idx.   *)
TextOf(choice) ==
  IF choice.fields.text = Absent THEN <<>> ELSE fstr(choice.fields.text)
MarkedCorrect(choice) ==
  choice.fields.is_correct # Absent /\ truth(choice.fields.is_correct)
BlockAt(choice, idx) ==
  IF MarkedCorrect(choice) THEN <<CHECK, SP>> \o TextOf(choice)
  ELSE <<UpperA + idx, DOT, SP>> \o TextOf(choice)

(* The blocks of the records of a list, each from its absolute position.   *)
RECURSIVE BlocksFrom(_, _)
BlocksFrom(v, j) ==
  IF j > Len(v.items) THEN <<>>
  ELSE IF IsRecord(v.items[j])
       THEN <<BlockAt(v.items[j], v.pad + j - 1)>> \o BlocksFrom(v, j + 1)
       ELSE BlocksFrom(v, j + 1)

RECURSIVE Terminated(_)
Terminated(blocks) ==
  IF blocks = <<>> THEN <<>> ELSE blocks[1] \o <<NL, NL>> \o Terminated(Tail(blocks))

(* The list without its elements that are no records.                      *)
OnlyRecords(v) == PyList(SelectSeq(v.items, IsRecord))

LastCall == calls[Len(calls)]
LastArg == ArgOf(Len(calls))
LastResult == results[Len(results)]

-----------------------------------------------------------------------------
(* C1: round trip.  For every list of {text, is_correct} records whose     *)
(* texts contain no double line-break and start neither with the check     *)
(* mark and a space nor with an uppercase letter, a period and a           *)
(* whitespace character, decoding the encoded list gives the list back.    *)
C1_RoundTrip ==
  ( /\ calls = <<F, P>>
    /\ IsChoiceList(arg)
    /\ \A i \in DOMAIN arg.items : Unambiguous(arg.items[i].fields.text.chars) )
  => results[2] = arg

(* C2: idempotence.  For every string s, decoding, encoding and decoding   *)
(* again gives what decoding s gave.                                       *)
C2_Idempotent ==
  (calls = <<P, F, P>> /\ isinstance(arg, "str")) => results[3] = results[1]

(* C3: the text format_choices accumulates is, for each record in list     *)
(* order, the check mark and a space followed by the text when the choice  *)
(* is correct, else the letter chr(65+idx) of its absolute position idx,   *)
(* a period, a space and the text; each followed by the separator.         *)
C3_LetterFromPosition ==
  ( /\ calls # <<>>
    /\ LastCall = F
    /\ isinstance(LastArg, "list")
    /\ ~Raised(LastResult) )
  => formatted = Terminated(BlocksFrom(LastArg, 1))

(* [wrong, correct, wrong] has been encoded as "A. x", "✓ y", "C. x".      *)
C3_Witness ==
  /\ calls = <<F>>
  /\ arg = PyList(<<Choice(<<120>>, FALSE), Choice(<<121>>, TRUE), Choice(<<120>>, FALSE)>>)
  /\ results[1] = PyStr(<<65, DOT, SP, 120, NL, NL, CHECK, SP, 121, NL, NL, 67, DOT, SP, 120>>)

(* C4: elements that are no records produce no block, raise nothing and    *)
(* leave the output for the records as it is without them: encoding the    *)
(* list returns what encoding the list without those elements returns.     *)
C4_NonRecordsNoEffect ==
  ( /\ calls # <<>>
    /\ LastCall = F
    /\ isinstance(LastArg, "list") )
  => /\ ~Raised(LastResult)
     /\ LastResult = format_choices(OnlyRecords(LastArg))

(* The non-empty trimmed blocks of a display text, in order.               *)
NonEmpty(b) == b # <<>>
TrimmedBlocks(s) ==
  LET raw == split(strip(s), <<NL, NL>>)
  IN SelectSeq([i \in DOMAIN raw |-> strip(raw[i])], NonEmpty)

StartsCorrect(b) == Len(b) >= 2 /\ b[1] = CHECK /\ b[2] = SP
Rest(b, n) == strip(SubSeq(b, n + 1, Len(b)))

(* The choice the three rules give for a trimmed block.                    *)
Classified(b) ==
  IF StartsCorrect(b) THEN Choice(Rest(b, 2), TRUE)
  ELSE IF LetterPrefixed(b) THEN Choice(Rest(b, 3), FALSE)
  ELSE Choice(b, FALSE)

ParsedText ==
  /\ calls # <<>>
  /\ LastCall = P
  /\ isinstance(LastArg, "str")

(* C5: every choice the decoder returns is its block classified by the    *)
(* first rule that matches: check mark and space, then uppercase letter,   *)
(* period and whitespace, else the whole block as an incorrect choice; it  *)
(* is correct exactly when the trimmed block starts with the check mark    *)
(* and a space.                                                            *)
C5_Classification ==
  ParsedText =>
    LET bs == TrimmedBlocks(LastArg.chars)
        out == LastResult.items
    IN \A i \in DOMAIN out :
         i <= Len(bs) =>
           /\ out[i] = Classified(bs[i])
           /\ (out[i].fields.is_correct = PyBool(TRUE)) <=> StartsCorrect(bs[i])

(* "✓ B. x", "B.\nx" and "b. x" have been decoded: one block per rule.     *)
C5_Witness ==
  /\ calls = <<P>>
  /\ arg = PyStr(<<CHECK, SP, 66, DOT, SP, 120, NL, NL, 66, DOT, NL, 120, NL, NL, 98, DOT, SP, 120>>)
  /\ results[1] = PyList(<<Choice(<<66, DOT, SP, 120>>, TRUE), Choice(<<120>>, FALSE),
                           Choice(<<98, DOT, SP, 120>>, FALSE)>>)

(* C6: the decoder returns one choice per block that is non-empty after    *)
(* trimming, the i-th choice from the i-th such block.                     *)
C6_OneChoicePerBlock ==
  ParsedText =>
    LET bs == TrimmedBlocks(LastArg.chars)
        out == LastResult.items
    IN /\ Len(out) = Len(bs)
       /\ \A i \in DOMAIN out : out[i] = parse_block(bs[i])

(* "x", an empty block and "b. x" have been decoded into two choices.      *)
C6_Witness ==
  /\ calls = <<P>>
  /\ arg = PyStr(<<120, NL, NL, NL, NL, 98, DOT, SP, 120>>)
  /\ results[1] = PyList(<<Choice(<<120>>, FALSE), Choice(<<98, DOT, SP, 120>>, FALSE)>>)

(* C7: for a list of records the encoder returns the blocks joined by the  *)
(* separator, every block unchanged: only the trailing separator is        *)
(* removed from the accumulated text.                                      *)
C7_OnlyTrailingSeparatorRemoved ==
  ( /\ calls # <<>>
    /\ LastCall = F
    /\ isinstance(LastArg, "list")
    /\ LastArg.pad = 0
    /\ \A i \in DOMAIN LastArg.items : IsRecord(LastArg.items[i])
    /\ ~Raised(LastResult) )
  => LastResult = PyStr(join(BlocksFrom(LastArg, 1), <<NL, NL>>))

(* C8: no call raises; the encoder returns a string and the decoder a      *)
(* list, whatever the input.                                               *)
C8_Total ==
  \A k \in DOMAIN calls :
    /\ ~Raised(results[k])
    /\ calls[k] = F => isinstance(results[k], "str")
    /\ calls[k] = P => isinstance(results[k], "list")

(* C9: the decoder returns the empty list for an input that is no string,  *)
(* the empty string or whitespace only.                                    *)
C9_EmptyListForNoText ==
  ( /\ calls # <<>>
    /\ LastCall = P
    /\ \/ ~isinstance(LastArg, "str")
       \/ \A i \in DOMAIN LastArg.chars : LastArg.chars[i] \in Whitespace )
  => LastResult = PyList(<<>>)

(* None has been decoded.                                                  *)
C9_Witness ==
  /\ calls = <<P>>
  /\ arg = PyNone
  /\ results[1] = PyList(<<>>)

(* C10: the encoder returns the empty string for an input that is no list  *)
(* and for the empty list.                                                 *)
C10_EmptyTextForNoList ==
  ( /\ calls # <<>>
    /\ LastCall = F
    /\ \/ ~isinstance(LastArg, "list")
       \/ (LastArg.pad = 0 /\ LastArg.items = <<>>) )
  => LastResult = PyStr(<<>>)

(* The number 5 has been encoded.                                          *)
C10_Witness ==
  /\ calls = <<F>>
  /\ arg = PyInt(5)
  /\ results[1] = PyStr(<<>>)

(* C16: every choice the decoder returns has a text that is non-empty, has *)
(* no leading or trailing whitespace and holds no double line-break; a     *)
(* marker with nothing after it never yields a choice with empty text.     *)
C16_NormalisedChoices ==
  \A k \in DOMAIN calls :
    (calls[k] = P /\ isinstance(results[k], "list")) =>
      \A i \in DOMAIN results[k].items :
        LET choice == results[k].items[i]
        IN /\ IsChoice(choice)
           /\ choice.fields.text.chars # <<>>
           /\ strip(choice.fields.text.chars) = choice.fields.text.chars
           /\ ~Contains(choice.fields.text.chars, <<NL, NL>>)

(* "✓ " and "B. ", markers with nothing after them, have been decoded: the *)
(* trimmed blocks "✓" and "B." are kept whole as incorrect choices.        *)
C16_Witness ==
  /\ calls = <<P>>
  /\ arg = PyStr(<<CHECK, SP, NL, NL, 66, DOT, SP>>)
  /\ results[1] = PyList(<<Choice(<<CHECK>>, FALSE), Choice(<<66, DOT>>, FALSE)>>)

(* C11: every export of ticked rows stores one question per ticked row,    *)
(* and the question's responses are one entry per stored choice, in the    *)
(* stored order, with the choice's text as label ('' when it has none),    *)
(* its is_correct as isCorrect (False when it has none), and as            *)
(* explanation the row's explanation when the choice is correct and the    *)
(* row has an explanation that is present and not blank, None otherwise.   *)
ExplanationGiven(row) ==
  /\ has(row, "explanation")
  /\ notna(row.explanation)
  /\ strip(row.explanation.chars) # <<>>

C11_ExportResponses ==
  df.present =>
    \A edited_df \in TickedFrames(df.value, selected_levels) :
      LET rows == selected_rows_df(edited_df)
          exported == export(edited_df)
      IN rows # <<>> =>
           /\ exported.present
           /\ Len(exported.value) = Len(rows)
           /\ \A k \in DOMAIN rows :
                LET stored == json_loads(rows[k].choices_json)
                    entries == exported.value[k].responses
                IN /\ entries.run = stored.rep
                   /\ Len(entries.items) = Len(stored.items)
                   /\ \A i \in DOMAIN stored.items :
                        LET choice == stored.items[i]
                            entry == entries.items[i]
                        IN /\ entry.label = IF choice.fields.text = Absent THEN PyStr(<<>>)
                                            ELSE choice.fields.text
                           /\ entry.isCorrect = IF choice.fields.is_correct = Absent
                                                THEN PyBool(FALSE)
                                                ELSE choice.fields.is_correct
                           /\ entry.explanation =
                                IF entry.isCorrect = PyBool(TRUE) /\ ExplanationGiven(rows[k])
                                THEN rows[k].explanation
                                ELSE PyNone

(* The first row of a.json was exported: no explanation on the incorrect   *)
(* choice, the row's explanation on the correct one.                       *)
C11_Witness ==
  /\ powerpath_export_data.present
  /\ Len(powerpath_export_data.value) = 1
  /\ powerpath_export_data.value[1].responses =
       [run |-> 0,
        items |-> <<Response(PyStr(<<120>>), PyBool(FALSE), PyNone),
                    Response(PyStr(<<121>>), PyBool(TRUE), PyStr(<<101>>))>>]

(* C12: whenever Save runs with a frame the editor handed it, for every    *)
(* row of the frame that carries the item_index of a record, the record    *)
(* then holds the JSON text of parse_formatted_choices_to_list(edited      *)
(* text), the output JSON is stored, and the record of the output JSON has *)
(* that list as its choices and none of item_index, select, choices_json,  *)
(* choices_formatted.                                                      *)
HelperFields == {"item_index", "select", "choices_json", "choices_formatted"}

SavedAsTyped(edited_df, before, after, output) ==
  \A k \in DOMAIN edited_df : \A i \in DOMAIN before :
    (notna(edited_df[k].item_index) /\ before[i].item_index = edited_df[k].item_index) =>
      LET decoded == parse_formatted_choices_to_list(edited_df[k].choices_formatted)
      IN /\ after[i].choices_json = json_dumps(decoded)
         /\ output.present
         /\ i \in DOMAIN output.value
         /\ output.value[i].choices = decoded
         /\ \A key \in HelperFields : ~has(output.value[i], key)

C12_SaveStoresParsedText ==
  [][df.present =>
       \A edited_df \in EditedFrames(df.value, selected_levels) :
         SaveWith(edited_df) => SavedAsTyped(edited_df, df.value, df'.value, updated_json')]_vars

(* C13: in every state in which the Reset button is shown, Reset leaves    *)
(* as the document json_to_df of the uploaded data, and neither a saved    *)
(* output JSON nor a stored export.                                        *)
C13_ResetRestores ==
  df.present =>
    /\ ~json_to_df(original_data.value).raised
    /\ reset.df = Stored(json_to_df(original_data.value).frame)
    /\ reset.updated_json = Missing
    /\ reset.powerpath_export_data = Missing

(* C14: in every state of the session, the display text of every record of *)
(* the document is format_choices of the record's stored choice list.      *)
C14_TextMatchesStoredList ==
  df.present =>
    \A i \in DOMAIN df.value :
      df.value[i].choices_formatted = format_choices(json_loads(df.value[i].choices_json))

(* C15: in every state of the session the records of the document carry    *)
(* the item_index values 0, 1, ... in order, and for every frame the       *)
(* editor can hand to Save (rows filtered out, deleted, edited, added),    *)
(* Save leaves as many records as before, with the same item_index values, *)
(* and leaves unchanged every record whose item_index is not in the frame. *)
InView(edited_df) == {edited_df[k].item_index : k \in DOMAIN edited_df}

C15_SaveFrame ==
  df.present =>
    /\ \A i \in DOMAIN df.value : df.value[i].item_index = PyInt(i - 1)
    /\ \A edited_df \in EditedFrames(df.value, selected_levels) :
         LET after == save(edited_df).df.value
         IN /\ Len(after) = Len(df.value)
            /\ \A i \in DOMAIN df.value :
                 /\ after[i].item_index = df.value[i].item_index
                 /\ df.value[i].item_index \notin InView(edited_df) => after[i] = df.value[i]

(* Save has run on a.json with the second record filtered out and the      *)
(* first one edited: two records, the first with the typed choice, the     *)
(* second as loaded.                                                       *)
C15_Witness ==
  /\ updated_json.present
  /\ file_name = "a.json"
  /\ selected_levels = {PyStr(Level1)}
  /\ Len(df.value) = 2
  /\ df.value[1].choices_json = json_dumps(PyList(<<Choice(<<120>>, TRUE)>>))
  /\ df.value[2] = json_to_df(original_data.value).frame[2]

=============================================================================
